---- MODULE Spec2Model ----
(***************************************************************************)
(* Model of public/process.py: load map.csv and year_averages.csv, inner   *)
(* join them on RegionName == ZIP, bin lat/lon on a regular grid, average  *)
(* the year columns per grid cell and write one CSV per bin size.          *)
(*                                                                         *)
(* Coordinates and bin sizes are float64 values in the program.  They are  *)
(* modelled bit-exactly: a finite double is sign * m * 2^e with a 53-bit   *)
(* significand m, held as a multi-limb natural because TLC's integers are  *)
(* 32 bits wide.  Every arithmetic operation rounds to nearest, ties to    *)
(* even, as IEEE 754 binary64 does.  Subnormals and exponent overflow are  *)
(* outside the range of the coordinates modelled and are not represented.  *)
(***************************************************************************)
EXTENDS Integers, Sequences, FiniteSets, TLC

(***************************************************************************)
(* Multi-limb naturals: little-endian sequences of limbs in 0..LimbBase-1  *)
(* without high zero limbs; <<>> is zero.  Carries are computed by         *)
(* look-ahead rather than by recursion over the limbs, which keeps TLC's   *)
(* evaluation stack shallow.                                               *)
(***************************************************************************)
RECURSIVE BitLenInt(_)
BitLenInt(x) == IF x = 0 THEN 0 ELSE 1 + BitLenInt(x \div 2)

LimbBase == 2^15
LimbBits == BitLenInt(LimbBase) - 1

Limb(a, i) == IF i <= Len(a) THEN a[i] ELSE 0

\* the sequence a (given as any function on 1..n) without its high zero limbs
Norm(a) ==
  LET t == a \o <<>>
      nz == {i \in 1..Len(t) : t[i] # 0}
  IN  IF nz = {} THEN <<>>
      ELSE SubSeq(t, 1, CHOOSE i \in nz : \A j \in nz : j <= i)

BAdd(a, b) ==
  LET n == IF Len(a) > Len(b) THEN Len(a) ELSE Len(b)
      s == [i \in 1..n |-> Limb(a, i) + Limb(b, i)] \o <<0>>
      carry(i) == \E j \in 1..(i - 1) :
                     s[j] >= LimbBase /\ \A k \in (j + 1)..(i - 1) : s[k] = LimbBase - 1
  IN  Norm([i \in 1..(n + 1) |-> (s[i] + IF carry(i) THEN 1 ELSE 0) % LimbBase])

\* -1, 0, 1 as a < b, a = b, a > b
BCmp(a, b) ==
  IF Len(a) < Len(b) THEN -1
  ELSE IF Len(a) > Len(b) THEN 1
  ELSE LET df == {i \in 1..Len(a) : a[i] # b[i]}
       IN  IF df = {} THEN 0
           ELSE LET i == CHOOSE i \in df : \A j \in df : j <= i
                IN  IF a[i] < b[i] THEN -1 ELSE 1

\* a - b for a >= b
BSub(a, b) ==
  LET borrow(i) == \E j \in 1..(i - 1) :
                      a[j] < Limb(b, j) /\ \A k \in (j + 1)..(i - 1) : a[k] = Limb(b, k)
  IN  Norm([i \in 1..Len(a) |->
              (a[i] - Limb(b, i) - (IF borrow(i) THEN 1 ELSE 0)) % LimbBase])

ShlLimbs(a, n) == IF a = <<>> THEN <<>> ELSE [i \in 1..n |-> 0] \o a

\* a * d for one limb d: the low and the high halves of the limb products, added
BMulLimb(a, d) ==
  IF d = 0 \/ a = <<>> THEN <<>>
  ELSE BAdd([i \in 1..Len(a) |-> (a[i] * d) % LimbBase] \o <<>>,
            <<0>> \o [i \in 1..Len(a) |-> (a[i] * d) \div LimbBase])

\* the sum over j <= i of the low halves of the limb products a[j] * b[k + 1 - j]
\* and of the high halves of the limb products a[j] * b[k - j]: column k of a * b
RECURSIVE MulColumn(_, _, _, _)
MulColumn(a, b, k, i) ==
  IF i = 0 THEN 0
  ELSE MulColumn(a, b, k, i - 1)
       + (IF k + 1 - i \in 1..Len(b) THEN (a[i] * b[k + 1 - i]) % LimbBase ELSE 0)
       + (IF k - i \in 1..Len(b) THEN (a[i] * b[k - i]) \div LimbBase ELSE 0)

\* a * b: the columns (each below LimbBase * 2 * Len(a)), split in two limbs
BMul(a, b) ==
  IF a = <<>> \/ b = <<>> THEN <<>>
  ELSE LET col == [k \in 1..(Len(a) + Len(b)) |-> MulColumn(a, b, k, Len(a))] \o <<>>
       IN  BAdd([k \in 1..Len(col) |-> col[k] % LimbBase] \o <<>>,
                <<0>> \o [k \in 1..Len(col) |-> col[k] \div LimbBase])

\* a * 2^n
BShl(a, n) == ShlLimbs(BMulLimb(a, 2^(n % LimbBits)), n \div LimbBits)

\* a \div 2^n
BShr(a, n) ==
  LET q == n \div LimbBits
      r == n % LimbBits
      L == Len(a)
  IN  IF q >= L THEN <<>>
      ELSE Norm([i \in 1..(L - q) |->
                   (a[i + q] \div 2^r)
                   + (Limb(a, i + q + 1) % 2^r) * 2^(LimbBits - r)])

\* a % 2^n
BLow(a, n) ==
  LET q == n \div LimbBits
      r == n % LimbBits
  IN  IF q >= Len(a) THEN a
      ELSE Norm([i \in 1..(q + 1) |-> IF i <= q THEN a[i] ELSE a[i] % 2^r])

BBitLen(a) ==
  IF a = <<>> THEN 0 ELSE (Len(a) - 1) * LimbBits + BitLenInt(a[Len(a)])

BOdd(a) == a # <<>> /\ a[1] % 2 = 1

RECURSIVE FromIntC(_)
FromIntC(n) == IF n = 0 THEN <<>> ELSE <<n % LimbBase>> \o FromIntC(n \div LimbBase)

\* the multi-limb natural of a TLC natural
BNat(n) == FromIntC(n)

\* the TLC natural of a multi-limb natural below 2^30
BInt(a) == Limb(a, 1) + LimbBase * Limb(a, 2)

Only(S) == CHOOSE v \in S : TRUE

\* <<q, r>> brought to r < d by subtracting d from r and counting in q
RECURSIVE DivFix(_, _, _)
DivFix(q, r, d) ==
  IF BCmp(r, d) >= 0 THEN DivFix(q + 1, BSub(r, d), d) ELSE <<q, r>>

\* One digit of the long division of r1 < d * LimbBase by d, whose top limb
\* is >= LimbBase / 2: the digit estimated from the top limbs of r1 and of d
\* is never above the true digit and at most 3 below it (DivFix adds the
\* rest).  <<digit, remainder>>.
DivDigit(r1, d) ==
  LET L == Len(d)
      est == (Limb(r1, L + 1) * LimbBase + Limb(r1, L)) \div (d[L] + 1)
  IN  Only({ DivFix(est, r, d) : r \in { BSub(r1, BMulLimb(d, est)) } })

\* Long division by d of the number whose limbs above limb i gave the quotient
\* limbs q and the remainder r < d: <<quotient limbs, remainder>>.
RECURSIVE DivLimbs(_, _, _, _, _)
DivLimbs(n, d, i, q, r) ==
  IF i = 0 THEN <<q, r>>
  ELSE Only({ DivLimbs(n, d, i - 1, <<qr[1]>> \o q, qr[2])
              : qr \in { DivDigit(IF r = <<>> /\ n[i] = 0 THEN <<>> ELSE <<n[i]>> \o r, d) } })

\* <<n \div d, n % d>> for d > 0
BDivMod(n, d) ==
  IF d = <<1>> THEN <<n, <<>>>>
  ELSE LET sh == LimbBits - BitLenInt(d[Len(d)])
           n1 == BShl(n, sh)
           d1 == BShl(d, sh)
           \* the top Len(d1) - 1 limbs of n1 are below d1: no quotient limb
           top == IF Len(n1) < Len(d1) THEN Len(n1) ELSE Len(d1) - 1
           qr == DivLimbs(n1, d1, Len(n1) - top, <<>>,
                          SubSeq(n1, Len(n1) - top + 1, Len(n1)))
       IN  <<Norm(qr[1]), BShr(qr[2], sh)>>

(***************************************************************************)
(* float64.  A value is [k, s, m, e]: k = "fin" is s * m * 2^e with s in   *)
(* {1, -1} and m = 0 (then s = 1, e = 0: the sign of zero is not kept, as  *)
(* 0.0 == -0.0 in every comparison made here) or 2^52 <= m < 2^53;         *)
(* k = "inf" is s * infinity; k = "nan" is NaN, the missing value.         *)
(***************************************************************************)
MantBits == 53

NaN == [k |-> "nan", s |-> 1, m |-> <<>>, e |-> 0]
Inf(s) == [k |-> "inf", s |-> s, m |-> <<>>, e |-> 0]
Zero == [k |-> "fin", s |-> 1, m |-> <<>>, e |-> 0]

IsNaN(x) == x.k = "nan"
IsZero(x) == x.k = "fin" /\ x.m = <<>>

\* s * (q + f) * 2^e rounded to the nearest double, ties to even, for a
\* quotient 2^53 <= q < 2^55 and a fraction 0 <= f < 1 that is 0 iff r = <<>>.
\* q has one or two bits beyond the significand.
RoundQuot(s, q, r, e) ==
  LET extra == BBitLen(q) - MantBits
      m0 == BShr(q, extra)
      low == BInt(BLow(q, extra))
      half == 2^(extra - 1)
      up == \/ low > half
            \/ low = half /\ (r # <<>> \/ BOdd(m0))
      m1 == IF up THEN BAdd(m0, <<1>>) ELSE m0
  IN  IF BBitLen(m1) > MantBits
      THEN [k |-> "fin", s |-> s, m |-> BShr(m1, 1), e |-> e + extra + 1]
      ELSE [k |-> "fin", s |-> s, m |-> m1, e |-> e + extra]

\* s * (n / d) * 2^e rounded to the nearest double, ties to even (n, d
\* multi-limb naturals, d > 0): n / d is scaled by 2^sh to a quotient of 54
\* or 55 bits
RoundRatio(s, n, d, e) ==
  IF n = <<>> THEN Zero
  ELSE Only({ Only({ RoundQuot(s, qr[1], qr[2], e - sh)
                     : qr \in { BDivMod(IF sh >= 0 THEN BShl(n, sh) ELSE n,
                                        IF sh >= 0 THEN d ELSE BShl(d, -sh)) } })
              : sh \in { (MantBits + 1) - (BBitLen(n) - BBitLen(d)) } })

\* the double of the integer s * n
FromNat(s, n) == RoundRatio(s, n, <<1>>, 0)

\* x / y (numpy true_divide: division by zero gives inf or nan, no exception)
FDiv(x, y) ==
  IF IsNaN(x) \/ IsNaN(y) THEN NaN
  ELSE IF x.k = "inf" THEN (IF y.k = "inf" THEN NaN ELSE Inf(x.s * y.s))
  ELSE IF y.k = "inf" THEN Zero
  ELSE IF IsZero(y) THEN (IF IsZero(x) THEN NaN ELSE Inf(x.s * y.s))
  ELSE RoundRatio(x.s * y.s, x.m, y.m, x.e - y.e)

\* x * y
FMul(x, y) ==
  IF IsNaN(x) \/ IsNaN(y) THEN NaN
  ELSE IF x.k = "inf" \/ y.k = "inf"
       THEN (IF IsZero(x) \/ IsZero(y) THEN NaN ELSE Inf(x.s * y.s))
  ELSE RoundRatio(x.s * y.s, BMul(x.m, y.m), <<1>>, x.e + y.e)

FNeg(x) == IF x.k = "nan" \/ IsZero(x) THEN x ELSE [x EXCEPT !.s = -x.s]

\* x + y.  An operand more than 2^60 times smaller than the other cannot
\* change the rounded sum.
FAdd(x, y) ==
  IF IsNaN(x) \/ IsNaN(y) THEN NaN
  ELSE IF x.k = "inf" THEN (IF y.k = "inf" /\ y.s # x.s THEN NaN ELSE x)
  ELSE IF y.k = "inf" THEN y
  ELSE IF IsZero(x) THEN y
  ELSE IF IsZero(y) THEN x
  ELSE IF x.e - y.e > 60 THEN x
  ELSE IF y.e - x.e > 60 THEN y
  ELSE LET e0 == IF x.e < y.e THEN x.e ELSE y.e
       IN  Only({ IF x.s = y.s THEN RoundRatio(x.s, BAdd(ab[1], ab[2]), <<1>>, e0)
                  ELSE IF BCmp(ab[1], ab[2]) = 0 THEN Zero
                  ELSE IF BCmp(ab[1], ab[2]) > 0
                       THEN RoundRatio(x.s, BSub(ab[1], ab[2]), <<1>>, e0)
                       ELSE RoundRatio(y.s, BSub(ab[2], ab[1]), <<1>>, e0)
                  : ab \in { <<BShl(x.m, x.e - e0), BShl(y.m, y.e - e0)>> } })

FSub(x, y) == FAdd(x, FNeg(y))

\* np.floor
FFloor(x) ==
  IF x.k # "fin" \/ x.m = <<>> \/ x.e >= 0 THEN x
  ELSE LET i == BShr(x.m, -x.e)
           frac == BLow(x.m, -x.e) # <<>>
       IN  IF x.s = 1 THEN FromNat(1, i)
           ELSE FromNat(-1, IF frac THEN BAdd(i, <<1>>) ELSE i)

\* truncation toward zero
FTrunc(x) ==
  IF x.k # "fin" \/ x.m = <<>> \/ x.e >= 0 THEN x
  ELSE FromNat(x.s, BShr(x.m, -x.e))

\* np.rint: to the nearest integer, ties to even
FRint(x) ==
  IF x.k # "fin" \/ x.m = <<>> \/ x.e >= 0 THEN x
  ELSE LET i == BShr(x.m, -x.e)
           low == BLow(x.m, -x.e)
           c == BCmp(low, BShl(<<1>>, -x.e - 1))
           up == c > 0 \/ (c = 0 /\ BOdd(i))
       IN  FromNat(x.s, IF up THEN BAdd(i, <<1>>) ELSE i)

\* x < y, false when either is NaN
FLess(x, y) ==
  LET mag(a, b) == \* |a| < |b| for finite non-zero a, b
        \/ a.e + BBitLen(a.m) < b.e + BBitLen(b.m)
        \/ a.e = b.e /\ BCmp(a.m, b.m) < 0
  IN  IF IsNaN(x) \/ IsNaN(y) THEN FALSE
      ELSE IF x.k = "inf" THEN x.s = -1 /\ ~(y.k = "inf" /\ y.s = -1)
      ELSE IF y.k = "inf" THEN y.s = 1
      ELSE IF IsZero(x) THEN ~IsZero(y) /\ y.s = 1
      ELSE IF IsZero(y) THEN x.s = -1
      ELSE IF x.s # y.s THEN x.s = -1
      ELSE IF x.s = 1 THEN mag(x, y) ELSE mag(y, x)

\* x == y as numbers (NaN equals nothing)
FEq(x, y) == ~IsNaN(x) /\ x = y

FLeq(x, y) == FLess(x, y) \/ FEq(x, y)

(***************************************************************************)
(* Decimal text.  A numeric cell is [ok |-> TRUE, neg, n, k]: the text of  *)
(* (-1)^neg * n / 10^k; any other text is [ok |-> FALSE, ...].             *)
(***************************************************************************)
Dec(neg, n, k) == [ok |-> TRUE, neg |-> neg, n |-> n, k |-> k]
BadText == [ok |-> FALSE, neg |-> FALSE, n |-> 0, k |-> 0]

RECURSIVE Pow10(_)
Pow10(k) == IF k = 0 THEN <<1>> ELSE BMulLimb(Pow10(k - 1), 10)

\* the double a decimal text denotes (correctly rounded)
ParseFloat(t) ==
  Only({ RoundRatio(IF t.neg THEN -1 ELSE 1, nd[1], nd[2], 0)
         : nd \in { <<BNat(t.n), Pow10(t.k)>> } })

(***************************************************************************)
(* Binning (bin_and_write, lines 38-44).  The program evaluates one        *)
(* operation after the other; the operators below say so with maps over    *)
(* one-element sets, {F(v) : v \in {E}}, which TLC evaluates inside out    *)
(* (a LET would be evaluated on demand, nesting the operations).           *)
(***************************************************************************)
RoundDecimals == 6

\* Series.round(decimals): numpy multiplies by 10^decimals, rounds to the
\* nearest integer (ties to even) and divides by 10^decimals
FRound(x, decimals) ==
  Only({ Only({ FDiv(r, f) : r \in { FRint(p) : p \in { FMul(x, f) } } })
         : f \in { FromNat(1, Pow10(decimals)) } })

\* truncation toward zero in place of np.floor
BinBaseTrunc(c, bin_size) ==
  Only({ FMul(t, bin_size) : t \in { FTrunc(q) : q \in { FDiv(c, bin_size) } } })

\* np.floor(c / bin_size) * bin_size
BinBase(c, bin_size) ==
  Only({ FMul(f, bin_size) : f \in { FFloor(q) : q \in { FDiv(c, bin_size) } } })

\* the lat_bin / lon_bin of one coordinate
BinCoord(c, bin_size) ==
  Only({ FRound(b, RoundDecimals) : b \in { BinBase(c, bin_size) } })

(***************************************************************************)
(* Tables.  A DataFrame is a sequence of entries [idx, row]: idx is the    *)
(* row's index label and row a function from column names to values.  An   *)
(* identifier (ZIP, RegionName) is a sequence of characters.               *)
(***************************************************************************)
Digit == {"0", "1", "2", "3", "4", "5", "6", "7", "8", "9"}

\* text that read_csv parses as an integer
IsIntText(t) == Len(t) > 0 /\ \A i \in 1..Len(t) : t[i] \in Digit

\* str(int(t)): the digits of t without leading zeros
IntStr(t) ==
  LET nz == {i \in 1..Len(t) : t[i] # "0"}
  IN  IF nz = {} THEN <<"0">>
      ELSE SubSeq(t, CHOOSE i \in nz : \A j \in nz : i <= j, Len(t))

\* read_csv without dtype=str, then .astype(str): a column whose cells are
\* all integer text is inferred as int64 and comes back as str(int(cell));
\* any other column stays the text read.  (Cells are non-empty and short of
\* int64 overflow in the inputs modelled.)
KeyColumn(cells) ==
  IF cells # <<>> /\ \A i \in 1..Len(cells) : IsIntText(cells[i])
  THEN [i \in 1..Len(cells) |-> IntStr(cells[i])]
  ELSE cells

\* pd.to_numeric(errors="coerce") of a lat/lon cell; an empty year cell reads
\* as NaN the same way
ToNumeric(t) == IF t.ok THEN ParseFloat(t) ELSE NaN

\* map.csv rows are <<ZIP, lat, lon>> (header=None, names=["ZIP","lat","lon"])
ReadMap(csv) ==
  LET zip == KeyColumn([i \in 1..Len(csv) |-> csv[i][1]])
  IN  [i \in 1..Len(csv) |->
         [idx |-> i,
          row |-> [ZIP |-> zip[i], lat |-> ToNumeric(csv[i][2]),
                   lon |-> ToNumeric(csv[i][3])]]]

\* dropna(subset=["lat"]): the lon column is not looked at
DropNaLatOnly(df) == SelectSeq(df, LAMBDA r : ~IsNaN(r.row.lat))

\* dropna(subset=["lat", "lon"])
DropNa(df) == SelectSeq(df, LAMBDA r : ~IsNaN(r.row.lat) /\ ~IsNaN(r.row.lon))

\* the header of year_averages.csv and its year columns (col.isdigit())
YearHeader == <<"RegionName", "StateName", "State", "2020", "2021">>
IsDigitName(col) == col \in {"2020", "2021"}

\* year_averages.csv rows are functions on YearHeader
ReadYear(csv) ==
  LET region == KeyColumn([i \in 1..Len(csv) |-> csv[i].RegionName])
  IN  [i \in 1..Len(csv) |->
         [idx |-> i,
          row |-> [c \in DOMAIN csv[i] |->
                     IF c = "RegionName" THEN region[i]
                     ELSE IF IsDigitName(c) THEN ToNumeric(csv[i][c])
                     ELSE csv[i][c]]]]

\* every <<left position, right position>> pair, in the order of the left
\* rows and, for one left row, of the right rows
AllPairs(left, right) ==
  [n \in 1..(Len(left) * Len(right)) |->
     <<((n - 1) \div Len(right)) + 1, ((n - 1) % Len(right)) + 1>>]

\* how="cross": every pair of rows
MergePairsCross(left, right) == AllPairs(left, right)

\* year_df.merge(map_df, left_on="RegionName", right_on="ZIP", how="inner"):
\* the pairs with equal keys, in the order of the left rows
MergePairs(left, right) ==
  SelectSeq(AllPairs(left, right),
            LAMBDA p : left[p[1]].row.RegionName = right[p[2]].row.ZIP)

\* the merged frame: the left columns, then the right columns, a fresh index
Merge(left, right) ==
  LET pairs == MergePairs(left, right)
  IN  [n \in 1..Len(pairs) |->
         [idx |-> n, row |-> left[pairs[n][1]].row @@ right[pairs[n][2]].row]]

\* [col for col in merged.columns if col.isdigit()]; the merged columns are
\* the year table's, then ZIP, lat, lon
YearCols == SelectSeq(YearHeader \o <<"ZIP", "lat", "lon">>, IsDigitName)

\* df.drop(columns=cols)
DropColumns(df, cols) ==
  [n \in 1..Len(df) |->
     [idx |-> df[n].idx, row |-> [c \in (DOMAIN df[n].row) \ cols |-> df[n].row[c]]]]

(***************************************************************************)
(* bin_and_write (lines 31-58)                                             *)
(***************************************************************************)
\* working = df: the same object, not a copy
AliasFrame(df) == df

\* working = df.copy(): a new object, here the one named "working"
CopyFrame(df) == "working"

\* the frame with lat_bin and lon_bin assigned (lines 39-44)
WithBins(df, bin_size) ==
  [n \in 1..Len(df) |->
     [idx |-> df[n].idx,
      row |-> ("lat_bin" :> BinCoord(df[n].row.lat, bin_size))
              @@ ("lon_bin" :> BinCoord(df[n].row.lon, bin_size))
              @@ df[n].row]]

RowKey(r) == <<r.row.lat_bin, r.row.lon_bin>>

\* groupby drops the rows with a NaN key (dropna=True)
HasKey(r) == ~IsNaN(r.row.lat_bin) /\ ~IsNaN(r.row.lon_bin)

KeyLess(a, b) == FLess(a[1], b[1]) \/ (a[1] = b[1] /\ FLess(a[2], b[2]))

\* sort=False: the keys in the order of their first rows
KeysByAppearance(df) ==
  LET first == SelectSeq([n \in 1..Len(df) |-> n],
                         LAMBDA n : HasKey(df[n])
                                    /\ \A j \in 1..(n - 1) : ~HasKey(df[j]) \/ RowKey(df[j]) # RowKey(df[n]))
  IN  [i \in 1..Len(first) |-> RowKey(df[first[i]])]

\* groupby(["lat_bin", "lon_bin"]) (sort=True): the distinct keys, ascending
GroupKeys(df) ==
  LET K == {RowKey(df[n]) : n \in {j \in 1..Len(df) : HasKey(df[j])}}
  IN  [i \in 1..Cardinality(K) |->
         CHOOSE k \in K : Cardinality({j \in K : KeyLess(j, k)}) = i - 1]

\* the rows whose lat_bin is the key's
GroupMembersLatOnly(df, key) ==
  SelectSeq([n \in 1..Len(df) |-> n],
            LAMBDA n : HasKey(df[n]) /\ df[n].row.lat_bin = key[1])

\* the positions of the rows of one group
GroupMembers(df, key) ==
  SelectSeq([n \in 1..Len(df) |-> n], LAMBDA n : HasKey(df[n]) /\ RowKey(df[n]) = key)

\* the GroupBy object: the keys with their member rows
GroupBy(df) ==
  Only({ [g \in 1..Len(keys) |-> [key |-> keys[g], members |-> GroupMembers(df, keys[g])]]
         : keys \in { GroupKeys(df) } })

\* A NaN value counts as 0.0 and is counted
KahanStepNaNAsZero(st, val) ==
  IF IsNaN(val) THEN <<st[1], st[2], st[3] + 1>>
  ELSE Only({ Only({ <<t, FSub(FSub(t, st[1]), y), st[3] + 1>>
                     : t \in { FAdd(st[1], y) } })
              : y \in { FSub(val, st[2]) } })

\* One step of the compensated (Kahan) sum of the group mean: st is
\* <<sumx, compensation, nobs>>; a NaN value is skipped.
KahanStep(st, val) ==
  IF IsNaN(val) THEN st
  ELSE Only({ Only({ <<t, FSub(FSub(t, st[1]), y), st[3] + 1>>
                     : t \in { FAdd(st[1], y) } })
              : y \in { FSub(val, st[2]) } })

RECURSIVE KahanFrom(_, _, _)
KahanFrom(vals, i, st) ==
  IF i > Len(vals) THEN st
  ELSE Only({ KahanFrom(vals, i + 1, st2) : st2 \in { KahanStep(st, vals[i]) } })

\* .mean() of one column of one group: NaN when no value is present
GroupMean(vals) ==
  Only({ IF st[3] = 0 THEN NaN ELSE FDiv(st[1], FromNat(1, BNat(st[3])))
         : st \in { KahanFrom(vals, 1, <<Zero, Zero, 0>>) } })

\* groupby(...)[year_cols].mean().reset_index()
Aggregate(df, groups, cols) ==
  [g \in 1..Len(groups) |->
     [idx |-> g,
      row |-> ("lat_bin" :> groups[g].key[1]) @@ ("lon_bin" :> groups[g].key[2])
              @@ [c \in {cols[i] : i \in 1..Len(cols)} |->
                    GroupMean([m \in 1..Len(groups[g].members) |->
                                 df[groups[g].members[m]].row[c]])]]]

\* str(bin_size).replace(".", "_") in "binned_year_averages_{}deg.csv", for a
\* bin size written as Python writes it back
OutName(bin_size) ==
  <<"binned_year_averages_", bin_size.neg, bin_size.n \div BInt(Pow10(bin_size.k)),
    "_", bin_size.n % BInt(Pow10(bin_size.k)), bin_size.k, "deg.csv">>

(***************************************************************************)
(* Inputs                                                                  *)
(***************************************************************************)
MaxMapRows == 2
MaxYearRows == 3
MaxCalls == 2
CoordRange == 110

\* the rows map.csv may hold
MapPool ==
  << <<<<"0", "0", "5", "0", "1">>, Dec(FALSE, 403, 1), Dec(TRUE, 725, 1)>>,
     <<<<"1", "0", "0", "0", "1">>, Dec(FALSE, 400, 1), Dec(TRUE, 730, 1)>>,
     <<<<"0", "0", "5", "0", "1">>, Dec(FALSE, 400, 1), Dec(FALSE, 3, 1)>>,
     <<<<"A", "1">>,                BadText,            Dec(TRUE, 730, 1)>>,
     <<<<"7", "7", "7">>,           Dec(FALSE, 409, 1), BadText>> >>

YearRow(region, v2020, v2021) ==
  [c \in {YearHeader[i] : i \in 1..Len(YearHeader)} |->
     IF c = "RegionName" THEN region
     ELSE IF c = "StateName" THEN "NY"
     ELSE IF c = "State" THEN "New York"
     ELSE IF c = "2020" THEN v2020 ELSE v2021]

\* the rows year_averages.csv may hold (BadText: an empty cell)
YearPool ==
  << YearRow(<<"0", "0", "5", "0", "1">>, Dec(FALSE, 100, 1), Dec(FALSE, 100, 1)),
     YearRow(<<"0", "0", "5", "0", "1">>, BadText,            Dec(FALSE, 200, 1)),
     YearRow(<<"5", "0", "1">>,           Dec(FALSE, 200, 1), BadText),
     YearRow(<<"A", "1">>,                BadText,            BadText) >>

\* the files of at most max rows taken from a pool, in the pool's order.
\* (read_csv of line 7 raises EmptyDataError on a map.csv without rows, so
\* the script starts from a map.csv with at least one row.)
Files(pool, max) ==
  { [i \in 1..Cardinality(S) |->
       pool[CHOOSE n \in S : Cardinality({m \in S : m < n}) = i - 1]]
    : S \in {T \in SUBSET (1..Len(pool)) : Cardinality(T) <= max} }

\* the bin sizes bin_and_write may be called with: 0.125 (line 71), 1.0
\* (line 65) and the degenerate 0.0 and -1.0
BinSizes == {Dec(FALSE, 125, 3), Dec(FALSE, 10, 1), Dec(FALSE, 0, 1), Dec(TRUE, 10, 1)}

Positive(bin_size) == bin_size.n > 0 /\ ~bin_size.neg

\* the coordinates and bin sizes the binning alone is explored on
BinCoords ==
  {Dec(n < 0, IF n < 0 THEN -n ELSE n, 2) : n \in (-CoordRange)..CoordRange}
  \cup {Dec(FALSE, 400, 1), Dec(TRUE, 730, 1), Dec(TRUE, 725, 1),
        Dec(FALSE, 37499999, 6), Dec(TRUE, 17999, 2)}

BinOnlySizes ==
  {Dec(FALSE, 10, 1), Dec(FALSE, 5, 1), Dec(FALSE, 25, 2), Dec(FALSE, 125, 3),
   Dec(FALSE, 1, 1)}

(***************************************************************************)
(* State                                                                   *)
(***************************************************************************)
VARIABLES
  map_csv,    \* map.csv
  year_csv,   \* year_averages.csv
  pc,         \* the statement the script is at
  map_df,     \* line 7-13
  year_df,    \* line 16-17
  merged,     \* line 20
  year_cols,  \* line 23
  frames,     \* the DataFrame objects: "base_df" (line 26) and the latest
              \* call's "working" (line 36)
  grouping,   \* the latest call's GroupBy object (line 48)
  files,      \* the CSV files written (line 57), by name
  stdout,     \* the lines printed (line 58)
  coord,      \* binning alone: the coordinate text,
  size,       \*   the bin size text,
  bstage,     \*   how often the binning was applied,
  bins        \*   and the bins computed

vars == <<map_csv, year_csv, pc, map_df, year_df, merged, year_cols, frames,
          grouping, files, stdout, coord, size, bstage, bins>>

pipeline == <<map_csv, year_csv, pc, map_df, year_df, merged, year_cols, frames,
              grouping, files, stdout>>

binning == <<coord, size, bstage, bins>>

Init ==
  /\ map_csv \in Files(MapPool, MaxMapRows) \ {<<>>}
  /\ year_csv \in Files(YearPool, MaxYearRows)
  /\ pc = "load_map"
  /\ map_df = <<>>
  /\ year_df = <<>>
  /\ merged = <<>>
  /\ year_cols = <<>>
  /\ frames = [f \in {"base_df", "working"} |-> <<>>]
  /\ grouping = <<>>
  /\ files = <<>>
  /\ stdout = <<>>
  /\ coord = BadText
  /\ size = BadText
  /\ bstage = 0
  /\ bins = <<>>

\* lines 7-13
LoadMap ==
  /\ pc = "load_map"
  /\ map_df' = DropNa(ReadMap(map_csv))
  /\ pc' = "load_year"
  /\ UNCHANGED <<map_csv, year_csv, year_df, merged, year_cols, frames, grouping,
                 files, stdout, binning>>

\* lines 16-17
LoadYear ==
  /\ pc = "load_year"
  /\ year_df' = ReadYear(year_csv)
  /\ pc' = "merge"
  /\ UNCHANGED <<map_csv, year_csv, map_df, merged, year_cols, frames, grouping,
                 files, stdout, binning>>

\* lines 20-26
MergeTables ==
  /\ pc = "merge"
  /\ merged' = Merge(year_df, map_df)
  /\ year_cols' = YearCols
  /\ frames' = [frames EXCEPT !["base_df"] =
                  DropColumns(merged', {"RegionName", "StateName", "State", "ZIP"})]
  /\ pc' = "main"
  /\ UNCHANGED <<map_csv, year_csv, map_df, year_df, grouping, files, stdout, binning>>

\* one call bin_and_write(base_df, bin_size) from the main block (lines 63-71)
BinAndWrite(bin_size) ==
  /\ pc = "main"
  /\ Len(stdout) < MaxCalls
  /\ \E working \in { WithBins(frames["base_df"], ParseFloat(bin_size)) } :
     \E groups \in { GroupBy(working) } :
     \E grouped \in { Aggregate(working, groups, year_cols) } :
       /\ frames' = [frames EXCEPT ![CopyFrame("base_df")] = working]
       /\ grouping' = groups
       /\ files' = (OutName(bin_size) :> grouped) @@ files
       /\ stdout' = Append(stdout, [outname |-> OutName(bin_size), rows |-> Len(grouped)])
  /\ UNCHANGED <<map_csv, year_csv, pc, map_df, year_df, merged, year_cols, binning>>

Next ==
  \/ LoadMap
  \/ LoadYear
  \/ MergeTables
  \/ \E bin_size \in BinSizes : BinAndWrite(bin_size)

Spec == Init /\ [][Next]_vars

(***************************************************************************)
(* The binning of lines 38-44 alone, on one coordinate: applied once, then *)
(* applied again to the bin it gave.                                       *)
(***************************************************************************)
InitBin ==
  /\ map_csv = <<>>
  /\ year_csv = <<>>
  /\ pc = "bin"
  /\ map_df = <<>>
  /\ year_df = <<>>
  /\ merged = <<>>
  /\ year_cols = <<>>
  /\ frames = [f \in {"base_df", "working"} |-> <<>>]
  /\ grouping = <<>>
  /\ files = <<>>
  /\ stdout = <<>>
  /\ coord \in BinCoords
  /\ size \in BinOnlySizes
  /\ bstage = 0
  /\ bins = <<>>

ApplyBin ==
  /\ pc = "bin"
  /\ bstage = 0
  /\ bins' = <<BinCoord(ParseFloat(coord), ParseFloat(size))>>
  /\ bstage' = 1
  /\ UNCHANGED <<pipeline, coord, size>>

ApplyBinAgain ==
  /\ pc = "bin"
  /\ bstage = 1
  /\ bins' = Append(bins, BinCoord(bins[1], ParseFloat(size)))
  /\ bstage' = 2
  /\ UNCHANGED <<pipeline, coord, size>>

NextBin == ApplyBin \/ ApplyBinAgain

SpecBin == InitBin /\ [][NextBin]_vars

(***************************************************************************)
(* Properties                                                              *)
(***************************************************************************)
One == FromNat(1, <<1>>)
MinusOne == FromNat(-1, <<1>>)

\* floor(c / bin_size) * bin_size in exact rational arithmetic on the decimal
\* texts, rounded once to a double
ExactBin(c, bin_size) ==
  LET num == BMul(BNat(c.n), Pow10(bin_size.k))
      den == BMul(BNat(bin_size.n), Pow10(c.k))
      qr == BDivMod(num, den)
      fl == IF c.neg /\ qr[2] # <<>> THEN BAdd(qr[1], <<1>>) ELSE qr[1]
  IN  RoundRatio(IF c.neg THEN -1 ELSE 1, BMul(fl, BNat(bin_size.n)),
                 Pow10(bin_size.k), 0)

\* the bin sizes that are powers of two: 1.0, 0.5, 0.25, 0.125
Dyadic == {Dec(FALSE, 10, 1), Dec(FALSE, 5, 1), Dec(FALSE, 25, 2), Dec(FALSE, 125, 3)}

\* C1: binning uses floor, not truncation toward zero: the bin is never above
\* the coordinate, negative coordinates included; with bin_size 1 every
\* coordinate strictly between -1 and 0 (-0.3, -0.5, -0.99) gets bin -1.0, not
\* 0.0; and for the power-of-two bin sizes the bin is exactly
\* floor(c / bin_size) * bin_size.
C1_FloorBinning ==
  bstage >= 1 =>
    /\ FLeq(bins[1], ParseFloat(coord))
    /\ (size = Dec(FALSE, 10, 1) /\ coord.neg /\ coord.n > 0 /\ coord.n < BInt(Pow10(coord.k))
          => bins[1] = MinusOne)
    /\ (size \in Dyadic => bins[1] = ExactBin(coord, size))

C1_Witness ==
  /\ bstage >= 1
  /\ coord \in {Dec(TRUE, 30, 2), Dec(TRUE, 50, 2), Dec(TRUE, 99, 2)}
  /\ size = Dec(FALSE, 10, 1)
  /\ bins[1] = MinusOne

\* C4: binning is idempotent: binning the bin of a coordinate again, with the
\* same bin size, gives the same bin.
C4_Idempotent == bstage = 2 => bins[2] = bins[1]

\* the bin size of an output file name is > 0
OutPositive(name) == ~name[2] /\ (name[3] > 0 \/ name[5] > 0)

\* C2: a call with a bin size that is zero or negative is rejected: it writes
\* no output file (and prints no "Wrote" line).
C2_DegenerateRejected ==
  /\ \A name \in DOMAIN files : OutPositive(name)
  /\ \A i \in 1..Len(stdout) : OutPositive(stdout[i].outname)

Min(a, b) == IF a < b THEN a ELSE b

\* C3 as stated: the join has at most min(valid coordinate rows, yearly rows)
\* records.
C3_JoinAtMostMin ==
  pc = "main" => Len(merged) <= Min(Len(map_df), Len(year_df))

UniqueKeys(df, col) ==
  \A i, j \in 1..Len(df) : df[i].row[col] = df[j].row[col] => i = j

\* C3 amended: when no key as loaded occurs in two valid coordinate rows or in
\* two yearly rows, the join has at most min(valid coordinate rows, yearly
\* rows) records.
C3_JoinAtMostMinUniqueKeys ==
  pc = "main" /\ UniqueKeys(map_df, "ZIP") /\ UniqueKeys(year_df, "RegionName")
    => Len(merged) <= Min(Len(map_df), Len(year_df))

C3_Witness ==
  /\ pc = "main"
  /\ UniqueKeys(map_df, "ZIP") /\ UniqueKeys(year_df, "RegionName")
  /\ Len(map_df) >= 2 /\ Len(year_df) >= 2
  /\ Len(merged) >= 1

\* the latest call, when there was one with a bin size > 0
Called == Len(stdout) > 0
LastName == stdout[Len(stdout)].outname
CalledPositive == Called /\ OutPositive(LastName)

\* C5: for a bin size > 0 every joined record is in exactly one group, so the
\* group sizes add up to the number of joined records, and there is one output
\* row per group.
C5_RowCount ==
  CalledPositive =>
    /\ \A n \in 1..Len(frames["base_df"]) :
         Cardinality({g \in 1..Len(grouping) :
                        \E m \in 1..Len(grouping[g].members) : grouping[g].members[m] = n}) = 1
    /\ Cardinality({gm \in (1..Len(grouping)) \X (1..Len(merged)) :
                       gm[2] <= Len(grouping[gm[1]].members)})
         = Len(merged)
    /\ Len(files[LastName]) = Len(grouping)

C5_Witness ==
  /\ CalledPositive
  /\ Len(merged) >= 3
  /\ Len(grouping) >= 2
  /\ \E g \in 1..Len(grouping) : Len(grouping[g].members) >= 2

\* the integer an integer-valued double of small magnitude holds
IntOf(x) == IF x.m = <<>> THEN 0 ELSE x.s * BInt(BShr(x.m, -x.e))

RECURSIVE SumInts(_, _)
SumInts(f, n) == IF n = 0 THEN 0 ELSE f[n] + SumInts(f, n - 1)

\* the mean of the values present, by exact integer arithmetic (the year
\* values of the inputs are whole numbers), rounded once to a double
ExactMean(vals) ==
  LET present == SelectSeq(vals, LAMBDA v : ~IsNaN(v))
      total == SumInts([i \in 1..Len(present) |-> IntOf(present[i])], Len(present))
  IN  IF Len(present) = 0 THEN NaN
      ELSE RoundRatio(1, BNat(total), BNat(Len(present)), 0)

MemberValues(g, c) ==
  [m \in 1..Len(grouping[g].members) |-> frames["working"][grouping[g].members[m]].row[c]]

\* C6: every output value is the mean of the values present in its group for
\* that year column (a missing value is left out, not counted as 0), and is
\* missing when the group has no value for the column.
C6_MeanSkipsMissing ==
  Called =>
    \A g \in 1..Len(grouping) : \A i \in 1..Len(year_cols) :
      files[LastName][g].row[year_cols[i]] = ExactMean(MemberValues(g, year_cols[i]))

Ten == FromNat(1, <<10>>)
Fifteen == FromNat(1, <<15>>)
Twenty == FromNat(1, <<20>>)

C6_Witness ==
  /\ Called
  /\ \E g \in 1..Len(grouping) :
       /\ MemberValues(g, "2020") = <<Ten, NaN, Twenty>>
       /\ files[LastName][g].row["2020"] = Fifteen

\* C7: identifiers are kept as the text of the input: every loaded ZIP and
\* RegionName is the text of its input row, and a yearly row joins a valid
\* coordinate row exactly when their identifier texts are equal.
C7_IdentifiersKeptAsText ==
  /\ pc \in {"load_year", "merge", "main"} =>
       \A n \in 1..Len(map_df) : map_df[n].row.ZIP = map_csv[map_df[n].idx][1]
  /\ pc \in {"merge", "main"} =>
       \A n \in 1..Len(year_df) : year_df[n].row.RegionName = year_csv[year_df[n].idx].RegionName
  /\ pc = "main" =>
       Len(merged) = Cardinality({ij \in (1..Len(year_csv)) \X (1..Len(map_csv)) :
                                    /\ year_csv[ij[1]].RegionName = map_csv[ij[2]][1]
                                    /\ map_csv[ij[2]][2].ok /\ map_csv[ij[2]][3].ok})

\* C8: the coordinate rows kept are exactly those whose lat and lon both
\* parse; no row with a failed lat or lon is in the coordinate table or in the
\* join, and loading goes on to the join.
C8_BadCoordinateRowsDropped ==
  pc \in {"load_year", "merge", "main"} =>
    /\ {map_df[n].idx : n \in 1..Len(map_df)}
         = {i \in 1..Len(map_csv) : map_csv[i][2].ok /\ map_csv[i][3].ok}
    /\ \A n \in 1..Len(merged) :
         /\ ~IsNaN(merged[n].row.lat) /\ ~IsNaN(merged[n].row.lon)
         /\ \E j \in 1..Len(map_df) :
              /\ map_csv[map_df[j].idx][2].ok /\ map_csv[map_df[j].idx][3].ok
              /\ map_df[j].row = [c \in {"ZIP", "lat", "lon"} |-> merged[n].row[c]]

C8_Witness ==
  /\ pc = "main"
  /\ \E i \in 1..Len(map_csv) : ~map_csv[i][2].ok \/ ~map_csv[i][3].ok
  /\ Len(map_df) = 1 /\ Len(map_csv) = 2
  /\ Len(merged) >= 1

\* C9: for a bin size > 0 the output rows are the distinct occupied cells,
\* one row each, strictly ascending in (lat_bin, lon_bin).
C9_SortedDistinctCells ==
  CalledPositive =>
    LET out == files[LastName]
        w == frames["working"]
    IN  /\ \A g \in 1..(Len(out) - 1) : KeyLess(RowKey(out[g]), RowKey(out[g + 1]))
        /\ \A g, h \in 1..Len(out) : RowKey(out[g]) = RowKey(out[h]) => g = h
        /\ {RowKey(out[g]) : g \in 1..Len(out)} = {RowKey(w[n]) : n \in 1..Len(w)}

C9_Witness ==
  /\ CalledPositive
  /\ Len(files[LastName]) >= 2
  /\ Len(frames["working"]) > Len(files[LastName])
  /\ KeyLess(RowKey(frames["working"][2]), RowKey(frames["working"][1]))

\* C10: a call of bin_and_write leaves the joined table as it was, and a file
\* written by an earlier call has the same content after any later call (so a
\* call's output does not depend on the calls before it).
C10_InputUnchanged ==
  [][pc = "main" =>
       /\ frames'["base_df"] = frames["base_df"]
       /\ merged' = merged
       /\ \A name \in DOMAIN files : files'[name] = files[name]]_vars

C10_Witness ==
  /\ Len(stdout) = 2
  /\ stdout[1].outname # stdout[2].outname
  /\ Len(frames["base_df"]) >= 2
  /\ frames["working"] # frames["base_df"]

====
